---- MODULE Spec2Model ----
(***************************************************************************)
(* Model of rpdk.core.upload.Uploader (src/rpdk/core/upload.py): the stack *)
(* reconciler _create_or_update_stack, the convergence wait, the output    *)
(* resolution and the two public operations upload() and                   *)
(* create_or_update_role(), run against a nondeterministic remote          *)
(* CloudFormation / S3 service.                                            *)
(*                                                                         *)
(* Text (stack names, templates, error messages, object keys) is modelled  *)
(* as a sequence of tokens; Python's `x in text` is containment of a       *)
(* contiguous run of tokens, and an f-string is concatenation.             *)
(***************************************************************************)
EXTENDS Integers, Sequences, FiniteSets, TLC

VARIABLES
    cli,                    \* cfn submit: args.no_kms_key and the environment
    stacks,                 \* remote service: the stack names that exist
    use_kms_key,            \* Uploader.use_kms_key, per Uploader
    bucket_name,            \* Uploader.bucket_name, per Uploader
    log_delivery_role_arn,  \* Uploader.log_delivery_role_arn, per Uploader
    pc,                     \* where each invocation stands
    local,                  \* the invocation's arguments and local variables
    calls,                  \* history: the remote calls of the invocation so far
    existed,                \* history: did the stack exist when the invocation began
    outputs,                \* _get_stack_output's outputs, while it is the last call
    result                  \* what the finished invocation returned or raised

vars == <<cli, stacks, use_kms_key, bucket_name, log_delivery_role_arn,
          pc, local, calls, existed, outputs, result>>

----------------------------------------------------------------------------
(* Bounds of the model *)

\* longest Outputs list a describe_stacks response carries
MaxOutputs == 2
\* a status source answers at attempt 1..MaxEarly, or around the attempt limit
MaxEarly == 1

\* the operating-system processes running an Uploader
Procs == {1, 2}

----------------------------------------------------------------------------
(* Program constants *)

BUCKET_OUTPUT_NAME == <<"CloudFormationManagedUploadBucketName">>
LOG_DELIVERY_ROLE_ARN_OUTPUT_NAME == <<"LogAndMetricsDeliveryRoleArn">>
EXECUTION_ROLE_ARN_OUTPUT_NAME == <<"ExecutionRoleArn">>
INFRA_STACK_NAME == <<"CloudFormationManagedUploadInfrastructure">>

\* WaiterConfig={"Delay": 5, "MaxAttempts": 200}
Delay == 5
MaxAttempts == 200

\* fault: the waiter is left with a longer attempt limit
WaiterConfigLonger == [Delay |-> Delay, MaxAttempts |-> MaxAttempts + 1]

WaiterConfig == [Delay |-> Delay, MaxAttempts |-> MaxAttempts]

\* the literal the update handler looks for in str(e)
NO_UPDATES_TEXT == <<"No", "updates", "are", "to", "be", "performed">>

----------------------------------------------------------------------------
(* Text helpers *)

\* Python: needle in hay
Contains(hay, needle) ==
    \E i \in 0..(Len(hay) - Len(needle)) :
        SubSeq(hay, i + 1, i + Len(needle)) = needle

\* Python: s.replace(a, b) for a one-token a
Replace(s, a, b) == [i \in 1..Len(s) |-> IF s[i] = a THEN b ELSE s[i]]

DigitChar(d) == <<"0", "1", "2", "3", "4", "5", "6", "7", "8", "9">>[d + 1]

RECURSIVE Pad(_, _)
\* n printed in w decimal digits, zero padded
Pad(n, w) == IF w = 0 THEN <<>> ELSE Pad(n \div 10, w - 1) \o <<DigitChar(n % 10)>>

----------------------------------------------------------------------------
(* Outcomes of an invocation *)

NoResult == [status |-> "none"]
Returned(v) == [status |-> "returned", value |-> v]
Raised(type, msg, cause) ==
    [status |-> "raised", type |-> type, msg |-> msg, cause |-> cause]

\* an exception the code does not catch reaches the caller as it is
Propagate(resp) == Raised(resp.kind, resp.msg, "none")

NoLocal == [op |-> "none"]

----------------------------------------------------------------------------
(* The remote services: what a call can answer *)

\* a botocore ClientError (an error response of the service) with its str(e)
ClientErr(msg) == [kind |-> "ClientError", msg |-> msg]

\* cfn_client.exceptions.AlreadyExistsException, a subclass of ClientError
AlreadyExists(name) ==
    [kind |-> "AlreadyExistsException",
     msg |-> <<"AlreadyExistsException", "Stack">> \o name \o <<"already", "exists">>]

\* an exception that is no ClientError: the request never got an answer
ConnErr ==
    [kind |-> "EndpointConnectionError",
     msg |-> <<"Could", "not", "connect", "to", "the", "endpoint", "URL">>]

\* Python's isinstance(e, ClientError)
IsClientError(resp) == resp.kind \in {"ClientError", "AlreadyExistsException"}

\* error messages the service may send with a rejected call
ClientMessages ==
    { <<"ValidationError">> \o NO_UPDATES_TEXT,
      NO_UPDATES_TEXT \o <<".">>,
      <<"ValidationError", "no", "updates", "to", "perform">>,
      <<"ValidationError", "no", "updates", "are", "to", "be", "performed">>,
      <<"AccessDenied", "User", "is", "not", "authorized">> }

ClientErrors == { ClientErr(m) : m \in ClientMessages }

\* the identifier the service gives the stack of that name
StackIdOf(name) == <<"arn:aws:cloudformation:stack/">> \o name

\* create_stack: accepted only for a name that has no stack yet
CreateResponses(name) ==
    (IF name \in stacks
        THEN {AlreadyExists(name)}
        ELSE {[kind |-> "ok", StackId |-> StackIdOf(name)]})
    \cup ClientErrors \cup {ConnErr}

\* update_stack of an existing stack
UpdateResponses(name) ==
    {[kind |-> "ok", StackId |-> StackIdOf(name)]} \cup ClientErrors \cup {ConnErr}

\* What the polled stack status does: "pending" before attempt `at`, and from
\* then on its kind ("pending": it never leaves the in-progress status).
\* "interrupt" is not a status: the wait is cancelled at attempt `at`, by the
\* user's Ctrl-C or by a timeout signal the caller armed, which raises
\* KeyboardInterrupt in the thread that sleeps in waiter.wait.
PollPoints == (1..MaxEarly) \cup {MaxAttempts, MaxAttempts + 1}

StatusSources ==
    [kind : {"success", "failure", "connection", "interrupt"}, at : PollPoints]
    \cup {[kind |-> "pending", at |-> 1]}

StatusAt(src, n) == IF n < src.at THEN "pending" ELSE src.kind

OutputKeys ==
    {BUCKET_OUTPUT_NAME, LOG_DELIVERY_ROLE_ARN_OUTPUT_NAME,
     EXECUTION_ROLE_ARN_OUTPUT_NAME}

OutputValues == {<<"v1">>, <<"v2">>}

RECURSIVE OutputLists(_)
\* the Outputs lists of at most n outputs: each key at most once, in any order
OutputLists(n) ==
    IF n = 0 THEN {<<>>}
    ELSE LET shorter == OutputLists(n - 1)
         IN shorter \cup
            {Append(q, [OutputKey |-> k, OutputValue |-> v]) :
                <<q, k, v>> \in
                    {t \in shorter \X OutputKeys \X OutputValues :
                        \A i \in 1..Len(t[1]) : t[1][i].OutputKey # t[2]}}

\* describe_stacks answers: result["Stacks"][0]["Outputs"], or an error
DescribeResponses ==
    {[kind |-> "ok", Outputs |-> o] : o \in OutputLists(MaxOutputs)}
    \cup {ClientErr(<<"AccessDenied", "User", "is", "not", "authorized">>), ConnErr}

\* s3_client.upload_fileobj answers
S3Responses ==
    {[kind |-> "ok"],
     ClientErr(<<"AccessDenied", "User", "is", "not", "authorized">>),
     ConnErr}

----------------------------------------------------------------------------
(* Inputs of the operations *)

\* contents the packaged data/managed-upload-infrastructure.yaml may have
InfraTemplates ==
    { <<"Outputs:">> \o BUCKET_OUTPUT_NAME \o LOG_DELIVERY_ROLE_ARN_OUTPUT_NAME,
      <<"Outputs:">> \o LOG_DELIVERY_ROLE_ARN_OUTPUT_NAME \o <<"Export">>
          \o BUCKET_OUTPUT_NAME,
      <<"Outputs:">> \o BUCKET_OUTPUT_NAME,
      <<"Outputs:">> \o LOG_DELIVERY_ROLE_ARN_OUTPUT_NAME,
      <<"Resources:">> }

RoleTemplates == { <<"Resources:", "ExecutionRole">> \o EXECUTION_ROLE_ARN_OUTPUT_NAME }

\* a template file that is there, with its contents, and one that is not
File(text) == [found |-> TRUE, text |-> text]
NoFile == [found |-> FALSE]

\* what template_path of create_or_update_role may name
RoleTemplateFiles == {File(text) : text \in RoleTemplates} \cup {NoFile}

\* resource_type as create_or_update_role receives it
ResourceTypes == { <<"aws-s3-bucket">>, INFRA_STACK_NAME }

FilePrefixes == { <<"my-resource">> }

\* os.environ: a variable that is not set, and one set to a text
Unset == [set |-> FALSE]
SetTo(text) == [set |-> TRUE, value |-> text]

\* what CFN_CLI_NO_KMS_KEY may be in the environment of cfn submit
EnvValues == {Unset, SetTo(<<>>), SetTo(<<"1">>), SetTo(<<"0">>), SetTo(<<"false">>)}

\* the command line and environment of cfn submit
CommandLines == [no_kms_key : BOOLEAN, CFN_CLI_NO_KMS_KEY : EnvValues]

\* datetime.utcnow()
Instants ==
    { [year |-> 2023, month |-> 1, day |-> 2, hour |-> 3, minute |-> 4,
       second |-> 5, microsecond |-> 0],
      [year |-> 1999, month |-> 12, day |-> 31, hour |-> 23, minute |-> 59,
       second |-> 59, microsecond |-> 999999] }

----------------------------------------------------------------------------
(* Uploader: the decisions of the code, as operators *)

\* os.getenv(name): the text, or None
Getenv(variable) ==
    IF variable.set THEN [none |-> FALSE, text |-> variable.value]
    ELSE [none |-> TRUE]

\* Python's truth value of a text or None
Truthy(x) == ~x.none /\ Len(x.text) > 0

\* Python's str(bool)
Str(b) == IF b THEN <<"True">> ELSE <<"False">>

\* fault: the environment variable is read as a number, 0 and false as off
SubmitUseKmsKeyParsesEnv(args) ==
    LET env == Getenv(args.CFN_CLI_NO_KMS_KEY)
        on == Truthy(env) /\ env.text \notin {<<"0">>, <<"false">>}
    IN Str(~(args.no_kms_key \/ on))

\* submit: the use_kms_key text handed to project.submit
SubmitUseKmsKey(args) ==
    LET use_kms_key_ ==
            IF args.no_kms_key \/ Truthy(Getenv(args.CFN_CLI_NO_KMS_KEY))
               THEN FALSE ELSE TRUE
    IN Str(use_kms_key_)

\* fault: only the bucket output is looked for
GetTemplateChecksBucketOnly(text) ==
    IF ~Contains(text, BUCKET_OUTPUT_NAME)
        THEN Raised("InternalError",
                    <<"Output not found in managed upload infrastructure template">>,
                    "none")
        ELSE Returned(text)

\* _get_template: the sanity test on the packaged template
GetTemplate(text) ==
    IF \E output_name \in {BUCKET_OUTPUT_NAME, LOG_DELIVERY_ROLE_ARN_OUTPUT_NAME} :
           ~Contains(text, output_name)
        THEN Raised("InternalError",
                    <<"Output not found in managed upload infrastructure template">>,
                    "none")
        ELSE Returned(text)

\* create_or_update_role: f"{resource_type}-role-stack"
RoleStackName(resource_type) == resource_type \o <<"-role-stack">>

\* fault: the Parameters are attached whatever the stack
StackArgsAlwaysParameters(template, stack_name, kms) ==
    [StackName |-> stack_name, TemplateBody |-> template,
     Parameters |-> <<[ParameterKey |-> <<"EnableKMSKeyForS3">>,
                       ParameterValue |-> kms]>>]

\* _create_or_update_stack: args, with Parameters for the infrastructure stack
StackArgs(template, stack_name, kms) ==
    LET args == [StackName |-> stack_name, TemplateBody |-> template]
    IN IF stack_name = INFRA_STACK_NAME
          THEN [Parameters |->
                   <<[ParameterKey |-> <<"EnableKMSKeyForS3">>,
                      ParameterValue |-> kms]>>] @@ args
          ELSE args

\* fault: create_stack without the termination protection
CreateStackKwargsUnprotected(args) == args @@ [Capabilities |-> <<"CAPABILITY_IAM">>]

\* the keyword arguments of the create_stack call
CreateStackKwargs(args) ==
    args @@ [EnableTerminationProtection |-> TRUE,
             Capabilities |-> <<"CAPABILITY_IAM">>]

\* the keyword arguments of the update_stack call
UpdateStackKwargs(args) == args @@ [Capabilities |-> <<"CAPABILITY_IAM">>]

\* fault: the message is compared whole instead of searched
IsNoOpWholeMessage(msg) == msg = NO_UPDATES_TEXT

\* the update handler's test: "No updates are to be performed" in str(e)
IsNoOp(msg) == Contains(msg, NO_UPDATES_TEXT)

\* A step of the reconciler ends in: the next remote call (pc), the stack_id
\* and waiter it goes on with, or the exception it raises (result).
Goes(to, stack_id, waiter_name) ==
    [pc |-> to, stack_id |-> stack_id, waiter_name |-> waiter_name,
     result |-> NoResult]
Fails(res) ==
    [pc |-> "done", stack_id |-> <<>>, waiter_name |-> "", result |-> res]

\* fault: every ClientError of create_stack is taken for "already exists"
OnCreateStackAnyErrorUpdates(stack_name, resp) ==
    CASE resp.kind = "ok" ->
            Goes("wait", resp.StackId, "stack_create_complete")
      [] IsClientError(resp) -> Goes("update_stack", <<>>, "")
      [] OTHER -> Fails(Propagate(resp))

\* fault: "already exists" is not told apart from the other ClientErrors
OnCreateStackNoUpdate(stack_name, resp) ==
    CASE resp.kind = "ok" ->
            Goes("wait", resp.StackId, "stack_create_complete")
      [] IsClientError(resp) ->
            Fails(Raised("DownstreamError", <<"Unknown CloudFormation error">>,
                         resp.kind))
      [] OTHER -> Fails(Propagate(resp))

\* fault: the created stack is not polled
OnCreateStackSkipsPoll(stack_name, resp) ==
    CASE resp.kind = "ok" -> Goes("describe_stacks", resp.StackId, "")
      [] resp.kind = "AlreadyExistsException" ->
            Goes("update_stack", <<>>, "")
      [] resp.kind # "AlreadyExistsException" /\ IsClientError(resp) ->
            Fails(Raised("DownstreamError", <<"Unknown CloudFormation error">>,
                         resp.kind))
      [] OTHER -> Fails(Propagate(resp))

\* try: create_stack ... except AlreadyExistsException / except ClientError / else
OnCreateStack(stack_name, resp) ==
    CASE resp.kind = "ok" ->
            Goes("wait", resp.StackId, "stack_create_complete")
      [] resp.kind = "AlreadyExistsException" ->
            Goes("update_stack", <<>>, "")
      [] resp.kind # "AlreadyExistsException" /\ IsClientError(resp) ->
            Fails(Raised("DownstreamError", <<"Unknown CloudFormation error">>,
                         resp.kind))
      [] OTHER -> Fails(Propagate(resp))

\* fault: every rejected update is taken for "nothing to update"
OnUpdateStackAnyErrorIsNoOp(stack_name, resp) ==
    CASE resp.kind = "ok" ->
            Goes("wait", resp.StackId, "stack_update_complete")
      [] IsClientError(resp) -> Goes("describe_stacks", stack_name, "")
      [] OTHER -> Fails(Propagate(resp))

\* fault: the stack is polled after a rejected update too
OnUpdateStackPollsAnyway(stack_name, resp) ==
    CASE resp.kind = "ok" ->
            Goes("wait", resp.StackId, "stack_update_complete")
      [] IsClientError(resp) ->
            Goes("wait", stack_name, "stack_update_complete")
      [] OTHER -> Fails(Propagate(resp))

\* try: update_stack ... except ClientError (no-op or not) / else
OnUpdateStack(stack_name, resp) ==
    CASE resp.kind = "ok" ->
            Goes("wait", resp.StackId, "stack_update_complete")
      [] IsClientError(resp) /\ IsNoOp(resp.msg) ->
            Goes("describe_stacks", stack_name, "")
      [] IsClientError(resp) /\ ~IsNoOp(resp.msg) ->
            Fails(Raised("DownstreamError", <<"Unknown CloudFormation error">>,
                         resp.kind))
      [] OTHER -> Fails(Propagate(resp))

\* waiter.wait(StackName, WaiterConfig): the poll loop makes attempts 1, 2, ...
\* and sleeps Delay between two of them. It ends at the first attempt that
\* sees a success or failure status or fails itself, or that is attempt
\* number MaxAttempts.
WaiterWait(src, config) ==
    LET ends == {n \in 1..config.MaxAttempts :
                    StatusAt(src, n) # "pending" \/ n >= config.MaxAttempts}
        n == CHOOSE i \in ends : \A j \in ends : i <= j
        status == StatusAt(src, n)
        slept == config.Delay * (n - 1)
    IN CASE status = "success" ->
               [kind |-> "ok", attempts |-> n, slept |-> slept]
         [] status = "failure" ->
               [kind |-> "WaiterError", attempts |-> n, slept |-> slept,
                msg |-> <<"Waiter", "encountered", "a", "terminal", "failure", "state">>]
         [] status = "connection" ->
               [kind |-> ConnErr.kind, attempts |-> n, slept |-> slept,
                msg |-> ConnErr.msg]
         [] status = "interrupt" ->
               [kind |-> "KeyboardInterrupt", attempts |-> n, slept |-> slept,
                msg |-> <<>>]
         [] OTHER ->
               [kind |-> "WaiterError", attempts |-> n, slept |-> slept,
                msg |-> <<"Max", "attempts", "exceeded">>]

\* fault: the UploadError names the stack by a fixed text
OnWaitNoStackId(stack_id, outcome) ==
    CASE outcome.kind = "ok" -> Goes("describe_stacks", stack_id, "")
      [] outcome.kind = "WaiterError" ->
            Fails(Raised("UploadError",
                         <<"Failed to create or update the stack">>,
                         outcome.kind))
      [] OTHER -> Fails(Propagate(outcome))

\* fault: the WaiterError is logged and swallowed
OnWaitSwallows(stack_id, outcome) ==
    CASE outcome.kind \in {"ok", "WaiterError"} -> Goes("describe_stacks", stack_id, "")
      [] OTHER -> Fails(Propagate(outcome))

\* fault: a bare except turns every exception into the UploadError
OnWaitBareExcept(stack_id, outcome) ==
    CASE outcome.kind = "ok" -> Goes("describe_stacks", stack_id, "")
      [] OTHER ->
            Fails(Raised("UploadError",
                         <<"Failed to create or update the '">> \o stack_id
                             \o <<"' stack">>,
                         outcome.kind))

\* _wait_for_stack: except WaiterError -> UploadError, else return
OnWait(stack_id, outcome) ==
    CASE outcome.kind = "ok" -> Goes("describe_stacks", stack_id, "")
      [] outcome.kind = "WaiterError" ->
            Fails(Raised("UploadError",
                         <<"Failed to create or update the '">> \o stack_id
                             \o <<"' stack">>,
                         outcome.kind))
      [] OTHER -> Fails(Propagate(outcome))

\* fault: a missing template file is read as an empty template
ReadRoleTemplateEmpty(file) ==
    IF ~file.found THEN Returned(<<>>) ELSE Returned(file.text)

\* create_or_update_role: open(template_path).read(), FileNotFoundError ->
\* InvalidProjectError
ReadRoleTemplate(file) ==
    IF ~file.found
        THEN Raised("InvalidProjectError", <<>>, "none")
        ELSE Returned(file.text)

\* fault: the value is taken by position, from the first output of the list
GetStackOutputFirst(outputs_, output_key) ==
    IF outputs_ = <<>>
        THEN Raised("InternalError", <<"Required output not found on stack">>,
                    "none")
        ELSE Returned(outputs_[1].OutputValue)

\* fault: a missing output resolves to the empty text
GetStackOutputDefault(outputs_, output_key) ==
    LET hits == {i \in DOMAIN outputs_ : outputs_[i].OutputKey = output_key}
    IN IF hits = {} THEN Returned(<<>>)
       ELSE Returned(outputs_[CHOOSE i \in hits : \A j \in hits : i <= j].OutputValue)

\* _get_stack_output: next(OutputValue of the first output with that key)
GetStackOutput(outputs_, output_key) ==
    LET hits == {i \in 1..Len(outputs_) : outputs_[i].OutputKey = output_key}
    IN IF hits = {}
          THEN Raised("InternalError", <<"Required output not found on stack">>,
                      "none")
          ELSE Returned(outputs_[CHOOSE i \in hits : \A j \in hits : i <= j]
                            .OutputValue)

\* datetime.isoformat(timespec="seconds")
IsoFormat(dt) ==
    Pad(dt.year, 4) \o <<"-">> \o Pad(dt.month, 2) \o <<"-">> \o Pad(dt.day, 2)
    \o <<"T">> \o Pad(dt.hour, 2) \o <<":">> \o Pad(dt.minute, 2) \o <<":">>
    \o Pad(dt.second, 2)

\* fault: the colons of the timestamp are kept
ObjectKeyKeepsColons(file_prefix, now) ==
    file_prefix \o <<"-">> \o IsoFormat(now) \o <<".zip">>

\* upload: key = f"{file_prefix}-{timestamp}.zip"
ObjectKey(file_prefix, now) ==
    LET timestamp == Replace(IsoFormat(now), ":", "-")
    IN file_prefix \o <<"-">> \o timestamp \o <<".zip">>

\* upload: f"s3://{self.bucket_name}/{key}"
Locator(bucket, key) == <<"s3://">> \o bucket \o <<"/">> \o key

\* upload: except ClientError -> DownstreamError, else return the locator
OnUploadFileobj(bucket, key, resp) ==
    CASE resp.kind = "ok" -> Returned(Locator(bucket, key))
      [] IsClientError(resp) ->
            Raised("DownstreamError", <<"Failed to upload artifacts to S3">>,
                   resp.kind)
      [] OTHER -> Propagate(resp)

\* get_log_delivery_role_arn: the field, as the last assignment left it
get_log_delivery_role_arn(p) == log_delivery_role_arn[p]

----------------------------------------------------------------------------
(* The operations, one action per remote call of an invocation *)

\* one remote call in the history: the operation, its arguments, its answer
Call(op, args, resp) == [op |-> op, args |-> args, resp |-> resp]

\* the reconciler goes on as its step decided, or the invocation ends
Continue(p, r) ==
    /\ pc' = [pc EXCEPT ![p] = r.pc]
    /\ result' = [result EXCEPT ![p] = r.result]
    /\ local' = [local EXCEPT ![p] =
                    IF r.pc = "done" THEN @
                    ELSE [@ EXCEPT !.stack_id = r.stack_id,
                                   !.waiter_name = r.waiter_name]]

\* the invocation ends: it returns a value or raises
Finish(p, res) ==
    /\ pc' = [pc EXCEPT ![p] = "done"]
    /\ result' = [result EXCEPT ![p] = res]
    /\ UNCHANGED local

\* the invocation ends before it enters _create_or_update_stack: reading the
\* template file raised
FailToRead(p, op, input, file, res) ==
    /\ pc' = [pc EXCEPT ![p] = "done"]
    /\ result' = [result EXCEPT ![p] = res]
    /\ local' = [local EXCEPT ![p] = [op |-> op, input |-> input, file |-> file]]

\* the invocation enters _create_or_update_stack(template, stack_name); input
\* is the operation's own argument (file_prefix, or resource_type), file the
\* template file it read
Reconcile(p, op, input, file, template, stack_name, output_key) ==
    /\ pc' = [pc EXCEPT ![p] = "create_stack"]
    /\ result' = [result EXCEPT ![p] = NoResult]
    /\ local' = [local EXCEPT ![p] =
                    [op |-> op, input |-> input, file |-> file,
                     template |-> template, stack_name |-> stack_name,
                     args |-> StackArgs(template, stack_name, use_kms_key[p]),
                     stack_id |-> <<>>, waiter_name |-> "",
                     output_key |-> output_key]]

\* upload(file_prefix, fileobj), up to the call of create_stack
Upload(p) ==
    /\ pc[p] = "idle"
    /\ \E file_prefix \in FilePrefixes, text \in InfraTemplates :
          LET template == GetTemplate(text)
          IN /\ existed' = [existed EXCEPT ![p] = INFRA_STACK_NAME \in stacks]
             /\ IF template.status = "raised"
                   THEN FailToRead(p, "upload", file_prefix, File(text), template)
                   ELSE Reconcile(p, "upload", file_prefix, File(text),
                                  template.value,
                                  INFRA_STACK_NAME, BUCKET_OUTPUT_NAME)
    /\ UNCHANGED <<cli, stacks, use_kms_key, bucket_name, log_delivery_role_arn,
                   calls, outputs>>

\* create_or_update_role(template_path, resource_type), up to create_stack
CreateOrUpdateRole(p) ==
    /\ pc[p] = "idle"
    /\ \E file \in RoleTemplateFiles, resource_type \in ResourceTypes :
          LET template == ReadRoleTemplate(file)
          IN /\ existed' = [existed EXCEPT ![p] =
                               RoleStackName(resource_type) \in stacks]
             /\ IF template.status = "raised"
                   THEN FailToRead(p, "role", resource_type, file, template)
                   ELSE Reconcile(p, "role", resource_type, file,
                                  template.value,
                                  RoleStackName(resource_type),
                                  EXECUTION_ROLE_ARN_OUTPUT_NAME)
    /\ UNCHANGED <<cli, stacks, use_kms_key, bucket_name, log_delivery_role_arn,
                   calls, outputs>>

\* _create_or_update_stack: the create_stack call and its handlers
CreateStack(p) ==
    /\ pc[p] = "create_stack"
    /\ \E resp \in CreateResponses(local[p].stack_name) :
          /\ calls' = [calls EXCEPT ![p] =
                          Append(@, Call("create_stack",
                                         CreateStackKwargs(local[p].args), resp))]
          /\ stacks' = IF resp.kind = "ok"
                          THEN stacks \cup {local[p].stack_name} ELSE stacks
          /\ Continue(p, OnCreateStack(local[p].stack_name, resp))
    /\ UNCHANGED <<cli, use_kms_key, bucket_name, log_delivery_role_arn, existed,
                   outputs>>

\* _create_or_update_stack: the update_stack call and its handlers
UpdateStack(p) ==
    /\ pc[p] = "update_stack"
    /\ \E resp \in UpdateResponses(local[p].stack_name) :
          /\ calls' = [calls EXCEPT ![p] =
                          Append(@, Call("update_stack",
                                         UpdateStackKwargs(local[p].args), resp))]
          /\ Continue(p, OnUpdateStack(local[p].stack_name, resp))
    /\ UNCHANGED <<cli, stacks, use_kms_key, bucket_name, log_delivery_role_arn,
                   existed, outputs>>

\* _wait_for_stack(stack_id, waiter_name, success_msg)
WaitForStack(p) ==
    /\ pc[p] = "wait"
    /\ \E src \in StatusSources :
          LET outcome == WaiterWait(src, WaiterConfig)
          IN /\ calls' = [calls EXCEPT ![p] =
                             Append(@, Call("wait",
                                            [waiter |-> local[p].waiter_name,
                                             StackName |-> local[p].stack_id,
                                             WaiterConfig |-> WaiterConfig,
                                             source |-> src],
                                            outcome))]
             /\ Continue(p, OnWait(local[p].stack_id, outcome))
    /\ UNCHANGED <<cli, stacks, use_kms_key, bucket_name, log_delivery_role_arn,
                   existed, outputs>>

\* _get_stack_output(stack_id, output_key) and what its caller does with it
DescribeStacks(p) ==
    /\ pc[p] = "describe_stacks"
    /\ \E resp \in DescribeResponses :
          LET key == local[p].output_key
              value == IF resp.kind = "ok"
                          THEN GetStackOutput(resp.Outputs, key)
                          ELSE Propagate(resp)
          IN /\ calls' = [calls EXCEPT ![p] =
                             Append(@, Call("describe_stacks",
                                            [StackName |-> local[p].stack_id,
                                             output_key |-> key],
                                            [kind |-> resp.kind]))]
             /\ outputs' = [outputs EXCEPT ![p] =
                               IF resp.kind = "ok" THEN resp.Outputs ELSE <<>>]
             /\ CASE value.status = "raised" ->
                        /\ Finish(p, value)
                        /\ UNCHANGED <<bucket_name, log_delivery_role_arn>>
                  [] value.status = "returned" /\ local[p].op = "role" ->
                        /\ Finish(p, value)
                        /\ UNCHANGED <<bucket_name, log_delivery_role_arn>>
                  [] value.status = "returned" /\ local[p].op = "upload"
                        /\ key = BUCKET_OUTPUT_NAME ->
                        /\ bucket_name' = [bucket_name EXCEPT ![p] = value.value]
                        /\ local' = [local EXCEPT ![p].output_key =
                                        LOG_DELIVERY_ROLE_ARN_OUTPUT_NAME]
                        /\ UNCHANGED <<pc, result, log_delivery_role_arn>>
                  [] OTHER ->
                        /\ log_delivery_role_arn' =
                              [log_delivery_role_arn EXCEPT ![p] = value.value]
                        /\ pc' = [pc EXCEPT ![p] = "upload_fileobj"]
                        /\ UNCHANGED <<local, result, bucket_name>>
    /\ UNCHANGED <<cli, stacks, use_kms_key, existed>>

\* upload: the key, the upload_fileobj call and the returned locator
UploadFileobj(p) ==
    /\ pc[p] = "upload_fileobj"
    /\ \E now \in Instants, resp \in S3Responses :
          LET key == ObjectKey(local[p].input, now)
          IN /\ calls' = [calls EXCEPT ![p] =
                             Append(@, Call("upload_fileobj",
                                            [Bucket |-> bucket_name[p],
                                             Key |-> key, now |-> now],
                                            resp))]
             /\ outputs' = [outputs EXCEPT ![p] = <<>>]
             /\ Finish(p, OnUploadFileobj(bucket_name[p], key, resp))
    /\ UNCHANGED <<cli, stacks, use_kms_key, bucket_name, log_delivery_role_arn,
                   existed>>

\* the caller has the outcome of the invocation; the Uploader is free again
Return(p) ==
    /\ pc[p] = "done"
    /\ pc' = [pc EXCEPT ![p] = "idle"]
    /\ calls' = [calls EXCEPT ![p] = <<>>]
    /\ outputs' = [outputs EXCEPT ![p] = <<>>]
    /\ existed' = [existed EXCEPT ![p] = FALSE]
    /\ result' = [result EXCEPT ![p] = NoResult]
    /\ local' = [local EXCEPT ![p] = NoLocal]
    /\ UNCHANGED <<cli, stacks, use_kms_key, bucket_name, log_delivery_role_arn>>

----------------------------------------------------------------------------
(* Specification: one Uploader (process 1), its operations invoked one     *)
(* after another; the Uploader of process 2 stays idle.                     *)

\* what a finished construction leaves, for a command line and an account
Constructed(args, account) ==
    /\ cli = args
    /\ stacks = account
    /\ use_kms_key = [p \in Procs |-> SubmitUseKmsKey(args)]
    /\ bucket_name = [p \in Procs |-> <<>>]
    /\ log_delivery_role_arn = [p \in Procs |-> <<>>]
    /\ pc = [p \in Procs |-> "idle"]
    /\ local = [p \in Procs |-> NoLocal]
    /\ calls = [p \in Procs |-> <<>>]
    /\ existed = [p \in Procs |-> FALSE]
    /\ outputs = [p \in Procs |-> <<>>]
    /\ result = [p \in Procs |-> NoResult]

\* submit and Uploader.__init__, and a remote account that holds no stack
\* yet; CFN_CLI_NO_KMS_KEY is not set, the flag is given or not
Init ==
    \E args \in {a \in CommandLines : a.CFN_CLI_NO_KMS_KEY = Unset} :
        Constructed(args, {})

Step(p) ==
    \/ Upload(p)
    \/ CreateOrUpdateRole(p)
    \/ CreateStack(p)
    \/ UpdateStack(p)
    \/ WaitForStack(p)
    \/ DescribeStacks(p)
    \/ UploadFileobj(p)
    \/ Return(p)

Next == Step(1)

Spec == Init /\ [][Next]_vars

----------------------------------------------------------------------------
(* Specification: one run of cfn submit, with any command line and          *)
(* environment, in an account that may hold the infrastructure stack of an   *)
(* earlier run; its Uploader does one operation.                             *)

SubmitInit ==
    \E args \in CommandLines, account \in {{}, {INFRA_STACK_NAME}} :
        Constructed(args, account)

SubmitNext ==
    \/ Upload(1)
    \/ CreateOrUpdateRole(1)
    \/ CreateStack(1)
    \/ UpdateStack(1)
    \/ WaitForStack(1)
    \/ DescribeStacks(1)
    \/ UploadFileobj(1)

SubmitSpec == SubmitInit /\ [][SubmitNext]_vars

----------------------------------------------------------------------------
(* Specification: two processes, each with its own Uploader, each invoke    *)
(* one operation at the same time against one account that holds no stack;  *)
(* their remote calls interleave in any order. An invocation is followed     *)
(* through _create_or_update_stack: at "describe_stacks" the reconciler has  *)
(* returned its handle.                                                      *)

RaceStep(p) ==
    \/ Upload(p)
    \/ CreateOrUpdateRole(p)
    \/ CreateStack(p)
    \/ UpdateStack(p)
    \/ WaitForStack(p)

RaceNext == \E p \in Procs : RaceStep(p)

RaceSpec == Init /\ [][RaceNext]_vars


----------------------------------------------------------------------------
(* Vocabulary of the properties *)

Done(p) == pc[p] = "done"

RaisedType(p, type) == result[p].status = "raised" /\ result[p].type = type

\* the positions in the history of p's calls of that operation
CallsOf(p, op) == {i \in DOMAIN calls[p] : calls[p][i].op = op}

HasParameters(args) == "Parameters" \in DOMAIN args

\* two requests name the same stack, template and parameters
SameRequest(a, b) ==
    /\ a.StackName = b.StackName
    /\ a.TemplateBody = b.TemplateBody
    /\ HasParameters(a) <=> HasParameters(b)
    /\ HasParameters(a) => a.Parameters = b.Parameters

\* after call i of p, the next thing p does is op: it has done it, or is at it
NextIs(p, i, op) ==
    IF i = Len(calls[p]) THEN pc[p] = op ELSE calls[p][i + 1].op = op

----------------------------------------------------------------------------
(* C1: In every invocation of the reconciler the first remote call is        *)
(* create_stack. If it is accepted the invocation polls with the             *)
(* stack_create_complete waiter for the returned stack id; if it answers     *)
(* "already exists" the invocation issues update_stack with the same name,   *)
(* template and parameters; if it fails with any other ClientError the       *)
(* invocation ends in DownstreamError with no update_stack and no poll.      *)
C1_CreateFirstThenRoute ==
    \A p \in Procs :
        LET c == calls[p]
        IN /\ pc[p] = "create_stack" => c = <<>>
           /\ pc[p] \in {"update_stack", "wait", "describe_stacks", "upload_fileobj"}
                 => c # <<>>
           /\ c # <<>> =>
                 /\ c[1].op = "create_stack"
                 /\ c[1].resp.kind = "ok" =>
                       /\ NextIs(p, 1, "wait")
                       /\ Len(c) = 1 =>
                             /\ local[p].waiter_name = "stack_create_complete"
                             /\ local[p].stack_id = c[1].resp.StackId
                       /\ Len(c) > 1 =>
                             /\ c[2].args.waiter = "stack_create_complete"
                             /\ c[2].args.StackName = c[1].resp.StackId
                 /\ c[1].resp.kind = "AlreadyExistsException" =>
                       /\ NextIs(p, 1, "update_stack")
                       /\ Len(c) > 1 => SameRequest(c[1].args, c[2].args)
                 /\ c[1].resp.kind = "ClientError" =>
                       /\ Len(c) = 1
                       /\ Done(p)
                       /\ RaisedType(p, "DownstreamError")

\* the three routes of C1 are taken: an update issued after "already exists"
C1_Witness ==
    \E p \in Procs :
        /\ Len(calls[p]) > 1
        /\ calls[p][1].resp.kind = "AlreadyExistsException"
        /\ calls[p][2].op = "update_stack"
        /\ HasParameters(calls[p][2].args)

(* C2 as stated: reconciling a name whose stack already exists issues        *)
(* update and never issues create.                                           *)
C2_NeverCreateAgain ==
    \A p \in Procs : existed[p] => CallsOf(p, "create_stack") = {}

(* C2, amended: reconciling a name that does not exist yet issues            *)
(* create_stack and no update_stack. Reconciling the same name again issues  *)
(* create_stack once more, which the service never accepts, and on its       *)
(* "already exists" answer goes on to update_stack; an update_stack is only  *)
(* ever issued after that answer.                                            *)
C2_CreateAlwaysTriedFirst ==
    \A p \in Procs :
        LET c == calls[p]
        IN /\ c # <<>> => CallsOf(p, "create_stack") = {1}
           /\ ~existed[p] /\ c # <<>> =>
                 /\ c[1].resp.kind # "AlreadyExistsException"
                 /\ CallsOf(p, "update_stack") = {}
           /\ existed[p] /\ c # <<>> =>
                 /\ c[1].resp.kind # "ok"
                 /\ c[1].resp.kind = "AlreadyExistsException"
                       => NextIs(p, 1, "update_stack")
           /\ \A i \in CallsOf(p, "update_stack") :
                 i = 2 /\ c[1].resp.kind = "AlreadyExistsException"

\* a second reconciliation of a created stack has reached its update_stack
C2_Witness ==
    \E p \in Procs :
        /\ existed[p]
        /\ CallsOf(p, "create_stack") = {1}
        /\ CallsOf(p, "update_stack") = {2}


----------------------------------------------------------------------------
\* call i of p is an update_stack rejected with a ClientError whose message
\* holds `pattern`
UpdateRejectedWith(p, i, pattern) ==
    /\ calls[p][i].op = "update_stack"
    /\ calls[p][i].resp.kind = "ClientError"
    /\ Contains(calls[p][i].resp.msg, pattern)

\* after call i the reconciler has returned the logical stack name as the
\* handle without a poll: output resolution on that name is next, and the
\* invocation holds no waiter call
ConvergedAtOnce(p, i) ==
    /\ CallsOf(p, "wait") = {}
    /\ NextIs(p, i, "describe_stacks")
    /\ IF i = Len(calls[p])
          THEN local[p].stack_id = calls[p][i].args.StackName
          ELSE calls[p][i + 1].args.StackName = calls[p][i].args.StackName

(* C3 as stated: an update_stack rejected with a message matching the        *)
(* pattern "no updates to perform" ends the reconciliation as converged at   *)
(* once, with the logical stack name as the handle and zero polls.           *)
C3_SpecPatternIsNoOp ==
    \A p \in Procs : \A i \in DOMAIN calls[p] :
        UpdateRejectedWith(p, i, <<"no", "updates", "to", "perform">>)
            => ConvergedAtOnce(p, i)

(* C3, amended: an update_stack rejected with a ClientError whose message    *)
(* contains the exact text "No updates are to be performed" ends the         *)
(* reconciliation as converged at once, with the logical stack name as the   *)
(* handle and zero polls.                                                    *)
C3_NoUpdatesTextIsNoOp ==
    \A p \in Procs : \A i \in DOMAIN calls[p] :
        UpdateRejectedWith(p, i, <<"No", "updates", "are", "to", "be", "performed">>)
            => ConvergedAtOnce(p, i)

\* a no-op update whose message has more text around the no-op text, and the
\* describe_stacks call that followed it
C3_Witness ==
    \E p \in Procs :
        /\ Len(calls[p]) = 3
        /\ UpdateRejectedWith(p, 2, <<"No", "updates", "are", "to", "be", "performed">>)
        /\ calls[p][2].resp.msg[1] = "ValidationError"
        /\ calls[p][3].op = "describe_stacks"

----------------------------------------------------------------------------
\* call j of p ended a reconciliation of the stack `id` as converged: a poll
\* of that stack that succeeded, or a no-op update of the stack of that name
Converges(p, j, id) ==
    \/ /\ calls[p][j].op = "wait"
       /\ calls[p][j].resp.kind = "ok"
       /\ calls[p][j].args.StackName = id
    \/ /\ UpdateRejectedWith(p, j, <<"No", "updates", "are", "to", "be", "performed">>)
       /\ calls[p][j].args.StackName = id

(* C4: every describe_stacks call of an invocation of upload() or            *)
(* create_or_update_role() is preceded, in that invocation, by a             *)
(* reconciliation that ended converged (a successful poll or a no-op         *)
(* update) for the stack it describes; and an invocation about to call       *)
(* describe_stacks has seen one for the handle it holds.                     *)
C4_DescribeOnlyAfterConvergence ==
    \A p \in Procs :
        /\ \A i \in CallsOf(p, "describe_stacks") :
              \E j \in 1..(i - 1) : Converges(p, j, calls[p][i].args.StackName)
        /\ pc[p] = "describe_stacks" =>
              \E j \in DOMAIN calls[p] : Converges(p, j, local[p].stack_id)

\* upload() has described the infrastructure stack twice after a poll that
\* succeeded at the last allowed attempt
C4_Witness ==
    \E p \in Procs :
        /\ local[p].op = "upload"
        /\ Cardinality(CallsOf(p, "describe_stacks")) = 2
        /\ \E j \in CallsOf(p, "wait") :
              calls[p][j].resp.kind = "ok" /\ calls[p][j].resp.attempts = 200


----------------------------------------------------------------------------
\* the polled status never reports success to a poll of at most 200 attempts
NeverSucceeds(src) ==
    \/ src.kind \in {"pending", "failure"}
    \/ src.kind = "success" /\ src.at > 200

(* C5: on the create path and on the update path alike the poll is made     *)
(* with a delay of 5 seconds and at most 200 attempts; it makes at most 200  *)
(* attempts, and against a status source that never reports success it ends  *)
(* in a WaiterError, the last call of the invocation, which ends in          *)
(* UploadError and not as converged.                                         *)
C5_PollBounded ==
    \A p \in Procs : \A i \in CallsOf(p, "wait") :
        LET w == calls[p][i]
        IN /\ w.args.waiter =
                 (IF calls[p][i - 1].op = "create_stack"
                     THEN "stack_create_complete" ELSE "stack_update_complete")
           /\ w.args.WaiterConfig = [Delay |-> 5, MaxAttempts |-> 200]
           /\ w.resp.attempts \in 1..200
           /\ w.resp.slept = 5 * (w.resp.attempts - 1)
           /\ NeverSucceeds(w.args.source) =>
                 /\ w.resp.kind = "WaiterError"
                 /\ i = Len(calls[p])
                 /\ Done(p)
                 /\ RaisedType(p, "UploadError")

\* an update was polled 200 times against a stack that stayed in progress
C5_Witness ==
    \E p \in Procs : \E i \in CallsOf(p, "wait") :
        /\ calls[p][i].args.waiter = "stack_update_complete"
        /\ calls[p][i].args.source.kind = "pending"
        /\ calls[p][i].resp.attempts = 200
        /\ RaisedType(p, "UploadError")

----------------------------------------------------------------------------
ProtectsTermination(args) ==
    /\ "EnableTerminationProtection" \in DOMAIN args
    /\ args.EnableTerminationProtection = TRUE

AcknowledgesIam(args) ==
    /\ "Capabilities" \in DOMAIN args
    /\ args.Capabilities = <<"CAPABILITY_IAM">>

(* C6 as stated: every create_stack call and every update_stack call        *)
(* requests termination protection and carries CAPABILITY_IAM.              *)
C6_EveryCallProtected ==
    \A p \in Procs :
        \A i \in CallsOf(p, "create_stack") \cup CallsOf(p, "update_stack") :
            ProtectsTermination(calls[p][i].args) /\ AcknowledgesIam(calls[p][i].args)

(* C6, amended: every create_stack call requests termination protection and *)
(* carries CAPABILITY_IAM; every update_stack call carries CAPABILITY_IAM    *)
(* and no termination protection argument.                                   *)
C6_CreateProtectedUpdateNot ==
    \A p \in Procs :
        /\ \A i \in CallsOf(p, "create_stack") :
              ProtectsTermination(calls[p][i].args) /\ AcknowledgesIam(calls[p][i].args)
        /\ \A i \in CallsOf(p, "update_stack") :
              /\ AcknowledgesIam(calls[p][i].args)
              /\ "EnableTerminationProtection" \notin DOMAIN calls[p][i].args

\* an invocation of create_or_update_role has made both calls
C6_Witness ==
    \E p \in Procs :
        /\ local[p].op = "role"
        /\ CallsOf(p, "create_stack") # {}
        /\ CallsOf(p, "update_stack") # {}

----------------------------------------------------------------------------
\* call i of p was answered with an error of the remote service that is none
\* of the two idempotency signals ("already exists", the no-op update)
RemoteServiceError(p, i) ==
    /\ calls[p][i].resp.kind \in {"ClientError", "WaiterError"}
    /\ ~UpdateRejectedWith(p, i, <<"No", "updates", "are", "to", "be", "performed">>)

(* C7: every failure of upload() or create_or_update_role() is one of the   *)
(* typed failures: an error of the remote service raised by create_stack,    *)
(* update_stack, the waiter, describe_stacks or the object upload (the two   *)
(* idempotency signals apart) ends the invocation in DownstreamError or      *)
(* UploadError, never in the low-level error and never in a return.          *)
C7_RemoteErrorsAreTyped ==
    \A p \in Procs : \A i \in DOMAIN calls[p] :
        RemoteServiceError(p, i) =>
            /\ Done(p)
            /\ result[p].status = "raised"
            /\ result[p].type \in {"DownstreamError", "UploadError"}

----------------------------------------------------------------------------
(* C8: the EnableKMSKeyForS3 parameter is attached to a create_stack or     *)
(* update_stack call exactly when its stack name is the infrastructure       *)
(* stack's, with the Uploader's use_kms_key as its value; the stack that     *)
(* create_or_update_role reconciles for a resource type is named             *)
(* '{resource_type}-role-stack' and its calls carry no Parameters.           *)
C8_ParametersOnlyForInfraStack ==
    \A p \in Procs :
        \A i \in CallsOf(p, "create_stack") \cup CallsOf(p, "update_stack") :
            LET a == calls[p][i].args
            IN /\ HasParameters(a) <=>
                     a.StackName = <<"CloudFormationManagedUploadInfrastructure">>
               /\ HasParameters(a) =>
                     a.Parameters = <<[ParameterKey |-> <<"EnableKMSKeyForS3">>,
                                       ParameterValue |-> use_kms_key[p]]>>
               /\ local[p].op = "role" =>
                     /\ a.StackName = local[p].input \o <<"-role-stack">>
                     /\ ~HasParameters(a)
               /\ local[p].op = "upload" => HasParameters(a)

\* the role stack of a resource type that is named like the infrastructure
\* stack has been created and updated
C8_Witness ==
    \E p \in Procs :
        /\ local[p].op = "role"
        /\ local[p].input = <<"CloudFormationManagedUploadInfrastructure">>
        /\ CallsOf(p, "update_stack") # {}

----------------------------------------------------------------------------
(* C9: a poll that fails (attempts exhausted, or a failure status) is not   *)
(* retried and not swallowed: it is the only poll and the last remote call   *)
(* of the invocation, which ends in an UploadError whose message holds the   *)
(* stack identifier that was polled; the stack stays in the account.         *)
C9_PollFailureIsFinal ==
    \A p \in Procs : \A i \in CallsOf(p, "wait") :
        calls[p][i].resp.kind = "WaiterError" =>
            /\ CallsOf(p, "wait") = {i}
            /\ i = Len(calls[p])
            /\ Done(p)
            /\ RaisedType(p, "UploadError")
            /\ result[p].cause = "WaiterError"
            /\ Contains(result[p].msg, calls[p][i].args.StackName)
            /\ calls[p][1].args.StackName \in stacks

\* a poll of a created stack saw a failure status at its first attempt
C9_Witness ==
    \E p \in Procs : \E i \in CallsOf(p, "wait") :
        /\ calls[p][i].resp.kind = "WaiterError"
        /\ calls[p][i].args.source = [kind |-> "failure", at |-> 1]
        /\ calls[p][i].args.waiter = "stack_create_complete"
        /\ Done(p)

----------------------------------------------------------------------------
(* C10: upload() makes exactly one upload_fileobj call in an invocation     *)
(* that succeeds and never more than one; when that call fails, with a       *)
(* transport error or an error of the service, upload() fails with           *)
(* DownstreamError carrying the original error as its cause.                 *)
C10_UploadFailureIsDownstream ==
    \A p \in Procs :
        /\ Cardinality(CallsOf(p, "upload_fileobj")) <= 1
        /\ Done(p) /\ local[p].op = "upload" /\ result[p].status = "returned"
              => Cardinality(CallsOf(p, "upload_fileobj")) = 1
        /\ \A i \in CallsOf(p, "upload_fileobj") :
              calls[p][i].resp.kind # "ok" =>
                  /\ RaisedType(p, "DownstreamError")
                  /\ result[p].cause = calls[p][i].resp.kind

----------------------------------------------------------------------------
\* call i of p is a poll that was cancelled while it waited
Cancelled(p, i) ==
    /\ calls[p][i].op = "wait"
    /\ calls[p][i].args.source.kind = "interrupt"
    /\ calls[p][i].args.source.at <= calls[p][i].args.WaiterConfig.MaxAttempts

(* C11: a poll cancelled while it waits (the user's interrupt, or a timeout  *)
(* the caller armed) makes no attempt after the one it was cancelled at and  *)
(* is the last remote call of the invocation; the invocation ends, raising   *)
(* the KeyboardInterrupt itself: an outcome that is neither the UploadError  *)
(* of a failed poll nor convergence (no output is resolved, nothing is       *)
(* returned).                                                                *)
C11_CancelledPollAborts ==
    \A p \in Procs : \A i \in CallsOf(p, "wait") :
        Cancelled(p, i) =>
            /\ calls[p][i].resp.attempts = calls[p][i].args.source.at
            /\ i = Len(calls[p])
            /\ Done(p)
            /\ RaisedType(p, "KeyboardInterrupt")
            /\ ~RaisedType(p, "UploadError")
            /\ CallsOf(p, "describe_stacks") = {}
            /\ \A j \in DOMAIN calls[p] :
                  ~Converges(p, j, calls[p][i].args.StackName)

\* the poll for an update was cancelled at its first attempt
C11_Witness ==
    \E p \in Procs : \E i \in CallsOf(p, "wait") :
        /\ Cancelled(p, i)
        /\ calls[p][i].args.source.at = 1
        /\ calls[p][i].args.waiter = "stack_update_complete"
        /\ Done(p)

----------------------------------------------------------------------------
\* the values the Outputs list gives for that key
ValuesOf(outputs_, output_key) ==
    {outputs_[i].OutputValue :
        i \in {j \in DOMAIN outputs_ : outputs_[j].OutputKey = output_key}}

(* C12: when the last call of an invocation is a describe_stacks that was    *)
(* answered with the Outputs list, the requested key resolves to the value   *)
(* the list holds for it: create_or_update_role() returns that value,        *)
(* upload() stores it in bucket_name and goes on to resolve the log role,    *)
(* or stores it in log_delivery_role_arn and goes on to the object upload.   *)
(* When the list does not hold the key the invocation ends in InternalError  *)
(* and that describe_stacks stays its last call: it is not repeated.         *)
C12_OutputResolvedOrInternalError ==
    \A p \in Procs :
        LET n == Len(calls[p])
        IN n > 0 /\ calls[p][n].op = "describe_stacks" /\ calls[p][n].resp.kind = "ok" =>
              LET key == calls[p][n].args.output_key
                  values == ValuesOf(outputs[p], key)
              IN /\ values = {} =>
                       /\ Done(p)
                       /\ RaisedType(p, "InternalError")
                       /\ result[p].msg = <<"Required output not found on stack">>
                 /\ values # {} =>
                       /\ Cardinality(values) = 1
                       /\ ~RaisedType(p, "InternalError")
                       /\ local[p].op = "role" =>
                             Done(p) /\ result[p] = Returned(CHOOSE v \in values : TRUE)
                       /\ local[p].op = "upload" /\ key = BUCKET_OUTPUT_NAME =>
                             /\ pc[p] = "describe_stacks"
                             /\ bucket_name[p] \in values
                       /\ local[p].op = "upload" /\ key = LOG_DELIVERY_ROLE_ARN_OUTPUT_NAME =>
                             /\ pc[p] = "upload_fileobj"
                             /\ log_delivery_role_arn[p] \in values

\* create_or_update_role() got an Outputs list whose second output is the
\* execution role, and returned its value
C12_Witness ==
    \E p \in Procs :
        /\ Done(p)
        /\ local[p].op = "role"
        /\ Len(outputs[p]) = 2
        /\ outputs[p][1].OutputKey = BUCKET_OUTPUT_NAME
        /\ outputs[p][1].OutputValue = <<"v1">>
        /\ outputs[p][2].OutputKey = EXECUTION_ROLE_ARN_OUTPUT_NAME
        /\ result[p] = Returned(<<"v2">>)

----------------------------------------------------------------------------
\* the text names both outputs the infrastructure template must declare
NamesBothOutputs(text) ==
    /\ Contains(text, <<"CloudFormationManagedUploadBucketName">>)
    /\ Contains(text, <<"LogAndMetricsDeliveryRoleArn">>)

(* C13: an upload() whose packaged template text lacks the bucket output     *)
(* name or the log delivery role output name ends in InternalError before    *)
(* any remote call; one whose text holds both names enters the reconciler    *)
(* with exactly that text as the template of its requests.                   *)
C13_TemplateNeedsBothOutputs ==
    \A p \in Procs :
        local[p].op = "upload" =>
            LET text == local[p].file.text
            IN /\ ~NamesBothOutputs(text) =>
                     /\ Done(p)
                     /\ RaisedType(p, "InternalError")
                     /\ calls[p] = <<>>
               /\ NamesBothOutputs(text) =>
                     /\ ~(Done(p) /\ calls[p] = <<>>)
                     /\ local[p].template = text
                     /\ local[p].args.TemplateBody = text
                     /\ \A i \in CallsOf(p, "create_stack") \cup CallsOf(p, "update_stack") :
                           calls[p][i].args.TemplateBody = text

\* upload() has sent a template that names the two outputs in the other
\* order, with other text between them
C13_Witness ==
    \E p \in Procs :
        /\ local[p].op = "upload"
        /\ local[p].file.text =
              <<"Outputs:", "LogAndMetricsDeliveryRoleArn", "Export",
                "CloudFormationManagedUploadBucketName">>
        /\ CallsOf(p, "create_stack") # {}

----------------------------------------------------------------------------
(* C14: a create_or_update_role() whose template file does not exist ends    *)
(* in InvalidProjectError and has issued no remote call; reading a file      *)
(* that exists never ends in InvalidProjectError.                            *)
C14_MissingRoleTemplateCallsNothing ==
    \A p \in Procs :
        local[p].op = "role" =>
            /\ ~local[p].file.found =>
                  /\ Done(p)
                  /\ RaisedType(p, "InvalidProjectError")
                  /\ calls[p] = <<>>
            /\ local[p].file.found => ~RaisedType(p, "InvalidProjectError")

\* create_or_update_role() has failed on a missing template file while the
\* account holds stacks of earlier invocations
C14_Witness ==
    \E p \in Procs :
        /\ local[p].op = "role"
        /\ local[p].file = [found |-> FALSE]
        /\ Done(p)
        /\ stacks # {}

----------------------------------------------------------------------------
\* 2023-01-02T03:04:05Z
ExampleInstant ==
    [year |-> 2023, month |-> 1, day |-> 2, hour |-> 3, minute |-> 4,
     second |-> 5, microsecond |-> 0]

(* C15: the key of every upload_fileobj call is the file prefix, a hyphen,   *)
(* the UTC time of the call in 19 characters of second precision with no     *)
(* colon, and ".zip"; for the prefix my-resource at 2023-01-02T03:04:05Z it  *)
(* is my-resource-2023-01-02T03-04-05.zip, and a microsecond before the year *)
(* 2000 it is my-resource-1999-12-31T23-59-59.zip. The bucket of the call is *)
(* the bucket_name the invocation resolved, and an upload() that returns,    *)
(* returns "s3://" bucket "/" key for that bucket and key.                   *)
C15_KeyAndLocatorFormat ==
    \A p \in Procs : \A i \in CallsOf(p, "upload_fileobj") :
        LET a == calls[p][i].args
            prefix == local[p].input
            n == Len(prefix)
        IN /\ Len(a.Key) = n + 1 + 19 + 1
           /\ SubSeq(a.Key, 1, n) = prefix
           /\ a.Key[n + 1] = "-"
           /\ a.Key[Len(a.Key)] = ".zip"
           /\ \A k \in (n + 2)..(n + 20) : a.Key[k] # ":"
           /\ prefix = <<"my-resource">> /\ a.now = ExampleInstant =>
                 a.Key = <<"my-resource", "-", "2", "0", "2", "3", "-", "0", "1",
                           "-", "0", "2", "T", "0", "3", "-", "0", "4", "-",
                           "0", "5", ".zip">>
           /\ prefix = <<"my-resource">> /\ a.now.year = 1999 =>
                 a.Key = <<"my-resource", "-", "1", "9", "9", "9", "-", "1", "2",
                           "-", "3", "1", "T", "2", "3", "-", "5", "9", "-",
                           "5", "9", ".zip">>
           /\ a.Bucket = bucket_name[p]
           /\ a.Bucket \in OutputValues
           /\ result[p].status = "returned" =>
                 result[p].value = <<"s3://">> \o a.Bucket \o <<"/">> \o a.Key

\* upload() of my-resource at 2023-01-02T03:04:05Z into bucket v2 returned
\* s3://v2/my-resource-2023-01-02T03-04-05.zip
C15_Witness ==
    \E p \in Procs : \E i \in CallsOf(p, "upload_fileobj") :
        /\ calls[p][i].args.now = ExampleInstant
        /\ local[p].input = <<"my-resource">>
        /\ Done(p)
        /\ result[p].status = "returned"
        /\ result[p].value[2] = "v2"
        /\ Len(result[p].value) = 25

----------------------------------------------------------------------------
\* --no-kms-key was given, or CFN_CLI_NO_KMS_KEY is set to a non-empty text
KmsKeyDeclined ==
    \/ cli.no_kms_key
    \/ cli.CFN_CLI_NO_KMS_KEY.set /\ cli.CFN_CLI_NO_KMS_KEY.value # <<>>

(* C16: the KMS flag cfn submit hands on is the text "False" exactly when    *)
(* --no-kms-key was given or CFN_CLI_NO_KMS_KEY is set to a non-empty text   *)
(* (whatever the text: "0" and "false" too), and "True" otherwise: when      *)
(* the variable is unset or set to the empty text and the option is absent.  *)
(* It is the value every request for the infrastructure stack carries as     *)
(* EnableKMSKeyForS3.                                                        *)
C16_KmsFlagFromOptionOrEnvironment ==
    \A p \in Procs :
        /\ use_kms_key[p] = IF KmsKeyDeclined THEN <<"False">> ELSE <<"True">>
        /\ \A i \in CallsOf(p, "create_stack") \cup CallsOf(p, "update_stack") :
              HasParameters(calls[p][i].args) =>
                  calls[p][i].args.Parameters[1].ParameterValue =
                      IF KmsKeyDeclined THEN <<"False">> ELSE <<"True">>

\* without the option and with CFN_CLI_NO_KMS_KEY=0 the infrastructure
\* stack was updated with EnableKMSKeyForS3 "False"
C16_Witness ==
    \E p \in Procs : \E i \in CallsOf(p, "update_stack") :
        /\ ~cli.no_kms_key
        /\ cli.CFN_CLI_NO_KMS_KEY = [set |-> TRUE, value |-> <<"0">>]
        /\ calls[p][i].args.Parameters[1].ParameterValue = <<"False">>

----------------------------------------------------------------------------
\* p's invocation has entered _create_or_update_stack
InReconciler(p) == local[p].op \in {"upload", "role"} /\ "stack_name" \in DOMAIN local[p]

\* call i of p was refused or failed, and is not one of the two answers the
\* reconciler goes on from ("already exists" to create_stack, the no-op text
\* to update_stack)
FailedCall(p, i) ==
    /\ calls[p][i].op \in {"create_stack", "update_stack", "wait"}
    /\ calls[p][i].resp.kind # "ok"
    /\ ~(calls[p][i].op = "create_stack"
            /\ calls[p][i].resp.kind = "AlreadyExistsException")
    /\ ~UpdateRejectedWith(p, i, <<"No", "updates", "are", "to", "be", "performed">>)

(* C17: an invocation that has entered the reconciler calls create_stack     *)
(* exactly once, as its first remote call (none yet only while it is about   *)
(* to); it calls update_stack at most once and only right after create_stack *)
(* answered "already exists"; it polls at most once and only right after a   *)
(* create_stack or update_stack that was accepted; and after a call that     *)
(* failed it makes no further remote call and ends.                          *)
C17_EachStackCallAtMostOnce ==
    \A p \in Procs :
        LET c == calls[p]
        IN /\ InReconciler(p) =>
                 CallsOf(p, "create_stack") = IF pc[p] = "create_stack" THEN {} ELSE {1}
           /\ ~InReconciler(p) => c = <<>>
           /\ Cardinality(CallsOf(p, "update_stack")) <= 1
           /\ \A i \in CallsOf(p, "update_stack") :
                 /\ i > 1
                 /\ c[i - 1].op = "create_stack"
                 /\ c[i - 1].resp.kind = "AlreadyExistsException"
           /\ Cardinality(CallsOf(p, "wait")) <= 1
           /\ \A i \in CallsOf(p, "wait") :
                 /\ i > 1
                 /\ c[i - 1].op \in {"create_stack", "update_stack"}
                 /\ c[i - 1].resp.kind = "ok"
           /\ \A i \in DOMAIN c :
                 FailedCall(p, i) => i = Len(c) /\ Done(p) /\ result[p].status = "raised"

\* an invocation has called create_stack, update_stack and the waiter once
\* each, and the poll failed
C17_Witness ==
    \E p \in Procs :
        /\ Len(calls[p]) = 3
        /\ calls[p][2].op = "update_stack"
        /\ calls[p][3].op = "wait"
        /\ FailedCall(p, 3)

----------------------------------------------------------------------------
\* before its call number i, p's upload() has seen the infrastructure stack
\* converge and has then resolved, by its last two calls, the bucket name
\* and the log delivery role, in this order, to values of the stack
ResolvedBothBefore(p, i) ==
    LET c == calls[p]
    IN /\ local[p].op = "upload"
       /\ i > 3
       /\ c[i - 2].op = "describe_stacks"
       /\ c[i - 2].args.output_key = BUCKET_OUTPUT_NAME
       /\ c[i - 2].resp.kind = "ok"
       /\ c[i - 1].op = "describe_stacks"
       /\ c[i - 1].args.output_key = LOG_DELIVERY_ROLE_ARN_OUTPUT_NAME
       /\ c[i - 1].resp.kind = "ok"
       /\ c[i - 1].args.StackName = c[i - 2].args.StackName
       /\ \E j \in 1..(i - 3) : Converges(p, j, c[i - 2].args.StackName)
       /\ bucket_name[p] \in OutputValues
       /\ log_delivery_role_arn[p] \in OutputValues

(* C18: upload() calls upload_fileobj only as the last call of an           *)
(* invocation whose reconciliation of the infrastructure stack converged     *)
(* and which then resolved the bucket name and, after it, the log delivery   *)
(* role from the stack's outputs; an upload() that ended in template         *)
(* loading, in the reconciliation or in either resolution has made no        *)
(* upload_fileobj call.                                                      *)
C18_ObjectUploadComesLast ==
    \A p \in Procs :
        /\ \A i \in CallsOf(p, "upload_fileobj") :
              i = Len(calls[p]) /\ ResolvedBothBefore(p, i)
        /\ pc[p] = "upload_fileobj" => ResolvedBothBefore(p, Len(calls[p]) + 1)
        /\ Done(p) /\ (calls[p] = <<>> \/ calls[p][Len(calls[p])].op # "upload_fileobj")
              => CallsOf(p, "upload_fileobj") = {}

\* upload() has made its upload_fileobj call after a no-op update and two
\* resolutions, the object was refused
C18_Witness ==
    \E p \in Procs :
        /\ Len(calls[p]) = 5
        /\ calls[p][5].op = "upload_fileobj"
        /\ calls[p][5].resp.kind = "ClientError"
        /\ UpdateRejectedWith(p, 2, <<"No", "updates", "are", "to", "be", "performed">>)

----------------------------------------------------------------------------
\* this step is p's describe_stacks call, in an upload() that has seen the
\* infrastructure stack converge, answered with an Outputs list that holds
\* the key asked for
Resolves(p, output_key) ==
    /\ pc[p] = "describe_stacks"
    /\ local[p].op = "upload"
    /\ local[p].output_key = output_key
    /\ \E j \in DOMAIN calls[p] : Converges(p, j, local[p].stack_id)
    /\ Len(calls'[p]) = Len(calls[p]) + 1
    /\ calls'[p][Len(calls'[p])].resp.kind = "ok"
    /\ ValuesOf(outputs'[p], output_key) # {}

\* the last call of p's upload() resolved the bucket name
BucketResolved(p) ==
    /\ calls[p] # <<>>
    /\ calls[p][Len(calls[p])].op = "describe_stacks"
    /\ calls[p][Len(calls[p])].args.output_key = BUCKET_OUTPUT_NAME
    /\ calls[p][Len(calls[p])].resp.kind = "ok"

\* what a step may do to the two fields of p's Uploader
FieldsFollowResolution(p) ==
    /\ bucket_name'[p] # bucket_name[p] => Resolves(p, BUCKET_OUTPUT_NAME)
    /\ Resolves(p, BUCKET_OUTPUT_NAME) =>
          /\ bucket_name'[p] \in ValuesOf(outputs'[p], BUCKET_OUTPUT_NAME)
          /\ log_delivery_role_arn'[p] = log_delivery_role_arn[p]
    /\ log_delivery_role_arn'[p] # log_delivery_role_arn[p] =>
          Resolves(p, LOG_DELIVERY_ROLE_ARN_OUTPUT_NAME) /\ BucketResolved(p)
    /\ Resolves(p, LOG_DELIVERY_ROLE_ARN_OUTPUT_NAME) =>
          /\ get_log_delivery_role_arn(p)' \in
                ValuesOf(outputs'[p], LOG_DELIVERY_ROLE_ARN_OUTPUT_NAME)
          /\ bucket_name'[p] = bucket_name[p]
    /\ pc[p] \in {"idle", "create_stack", "update_stack", "wait", "upload_fileobj",
                 "done"} =>
          /\ bucket_name'[p] = bucket_name[p]
          /\ get_log_delivery_role_arn(p)' = get_log_delivery_role_arn(p)

(* C19: bucket_name and log_delivery_role_arn are empty at first, and a step *)
(* changes one of them only when it is the describe_stacks call by which an  *)
(* upload() that reconciled the infrastructure stack to convergence resolves *)
(* that output: the bucket name first, the log delivery role only after the  *)
(* bucket name was resolved in the same invocation; the field then holds the *)
(* resolved value. Template loading, the reconciliation, the object upload,  *)
(* its failure, the end of an invocation and create_or_update_role() leave   *)
(* both fields as they are, so get_log_delivery_role_arn() gives the value   *)
(* of the most recent upload() that resolved both outputs.                   *)
C19_FieldsSetOnlyByResolution ==
    /\ \A p \in Procs : bucket_name[p] = <<>> /\ get_log_delivery_role_arn(p) = <<>>
    /\ [][\A p \in Procs : FieldsFollowResolution(p)]_vars

\* an upload() resolved both outputs and its object upload was then refused;
\* the log delivery role it resolved is what the Uploader gives
C19_Witness ==
    \E p \in Procs :
        /\ Done(p)
        /\ local[p].op = "upload"
        /\ RaisedType(p, "DownstreamError")
        /\ calls[p][Len(calls[p])].op = "upload_fileobj"
        /\ get_log_delivery_role_arn(p) = <<"v2">>
        /\ bucket_name[p] = <<"v1">>

----------------------------------------------------------------------------
\* p and q are two invocations that reconcile the same stack name
SameName(p, q) ==
    /\ p # q
    /\ InReconciler(p)
    /\ InReconciler(q)
    /\ local[p].stack_name = local[q].stack_name

\* the service has answered p's create_stack on the existence of the stack:
\* it accepted it or refused it as "already exists"
CreateDecided(p) ==
    /\ calls[p] # <<>>
    /\ calls[p][1].resp.kind \in {"ok", "AlreadyExistsException"}

(* C20: when two invocations reconcile, at the same time and in any          *)
(* interleaving of their remote calls, one stack name the account does not   *)
(* hold yet, the create_stack of at most one of them is accepted; when the   *)
(* service has decided both create_stack calls, it accepted exactly one and  *)
(* answered the other "already exists", and that other invocation goes on    *)
(* to update_stack. No invocation has its handle (is at output resolution)   *)
(* unless a poll of its own succeeded or its own update_stack was answered   *)
(* with the no-op text.                                                      *)
C20_OneCreateWinsTheRace ==
    /\ \A p, q \in Procs :
          SameName(p, q) =>
              /\ ~(/\ calls[p] # <<>> /\ calls[p][1].resp.kind = "ok"
                   /\ calls[q] # <<>> /\ calls[q][1].resp.kind = "ok")
              /\ CreateDecided(p) /\ CreateDecided(q) =>
                    \/ calls[p][1].resp.kind = "ok"
                    \/ calls[q][1].resp.kind = "ok"
              /\ calls[p] # <<>> /\ calls[p][1].resp.kind = "ok" /\ CreateDecided(q) =>
                    /\ calls[q][1].resp.kind = "AlreadyExistsException"
                    /\ NextIs(q, 1, "update_stack")
    /\ \A p \in Procs :
          pc[p] = "describe_stacks" =>
              \E j \in DOMAIN calls[p] : Converges(p, j, local[p].stack_id)

\* both invocations have their handle for the infrastructure stack: the one
\* whose create_stack was accepted after its poll, the other, whose
\* create_stack came second, after its update was answered as a no-op
C20_Witness ==
    \E p, q \in Procs :
        /\ SameName(p, q)
        /\ local[p].stack_name = INFRA_STACK_NAME
        /\ pc[p] = "describe_stacks"
        /\ pc[q] = "describe_stacks"
        /\ calls[p][1].resp.kind = "ok"
        /\ calls[q][1].resp.kind = "AlreadyExistsException"
        /\ Len(calls[q]) = 2
        /\ UpdateRejectedWith(q, 2, <<"No", "updates", "are", "to", "be", "performed">>)

====
